---- MODULE Spec2Model ----
(***************************************************************************)
(* Model of the EMP-BE backend: the attendance ledger (check-in,           *)
(* check-out), the overtime approval gate, leave requests, employee        *)
(* creation and deletion with the paired account, and the report           *)
(* summaries.  Each request handler is cut at its awaits: one action per   *)
(* database round trip, so that two requests in flight interleave as       *)
(* they do on the Node event loop.                                         *)
(*                                                                         *)
(* Time is counted in units of 12 seconds from midnight of day 0 (local    *)
(* time): one minute is 5 units and one hundredth of an hour is 3 units,   *)
(* so that both Math.floor to minutes and toFixed(2) of hours really       *)
(* round.  No instant of the grid is a rounding tie.                       *)
(***************************************************************************)
EXTENDS Integers, FiniteSets, Sequences, TLC

VARIABLES now, users, employees, departments, attendances, overtimeRequests,
          leaves, proc, task, resp, report, ids

vars == <<now, users, employees, departments, attendances, overtimeRequests,
          leaves, proc, task, resp, report, ids>>

(***************************************************************************)
(* Bounds of the model.                                                    *)
(***************************************************************************)
MaxDay == 0
MaxRequests == 1
MaxLeaves == 1

(***************************************************************************)
(* Units of time and the policy constants of the handlers.                 *)
(***************************************************************************)
UnitsPerHour == 300
UnitsPerMinute == UnitsPerHour \div 60
UnitsPerDay == 24 * UnitsPerHour
standardHours == 8
standardCheckInHour == 8

NoDate == 0 - 1

\* The instants at which the clock is sampled: midnight, 08:15:12 and
\* 18:00:12 of each day.
TimesOfDay == {0, 8 * UnitsPerHour + 76, 18 * UnitsPerHour + 1}
InstantsUpTo(lastDay) ==
  {d * UnitsPerDay + t : d \in 0..lastDay, t \in TimesOfDay}
DayStarts == {d * UnitsPerDay : d \in 0..MaxDay}

Min(a, b) == IF a <= b THEN a ELSE b

\* today.setHours(0, 0, 0, 0)
DayStart(t) == (t \div UnitsPerDay) * UnitsPerDay

\* standardCheckIn.setHours(8, 0, 0, 0)
StandardCheckIn(today) == today + standardCheckInHour * UnitsPerHour

\* The minutes from the standard time without the guard: negative before it.
SignedMinutes(t, std) == (t - std) \div UnitsPerMinute

\* Math.floor((now - standardCheckIn) / (1000 * 60)), guarded by now > standardCheckIn
LateMinutes(t, std) == IF t > std THEN (t - std) \div UnitsPerMinute ELSE 0

\* Number(workingHours.toFixed(2)), in hundredths of an hour, for a
\* non-negative duration in units: round to the nearest hundredth.
ToFixed2(units) == (2 * 100 * units + UnitsPerHour) \div (2 * UnitsPerHour)

(***************************************************************************)
(* Principals.  u1 and u2 are accounts with an employee record, admin is   *)
(* the administrator account, which has none.                              *)
(***************************************************************************)
UserIds == {"u1", "u2", "admin"}
\* The requests that can be in flight at once.  The slots are anonymous: a
\* new request takes the lowest free one.
Procs == {1, 2}

\* A gate that lets every principal through.
AnyPrincipal(u) == TRUE

\* isAdmin: req.user.role !== 'admin' is refused
isAdmin(u) == \E a \in users : a.id = u /\ a.role = "admin"

\* Employee.findOne({ userId: req.user._id })
EmployeeOf(u) == {e \in employees : e.userId = u}

IdleProc == [op |-> "idle", pc |-> "idle", user |-> "none", doc |-> {}, mod |-> {}]

FreeSlot(p) == proc[p].pc = "idle" /\ \A q \in Procs : q < p => proc[q].pc # "idle"

\* The response a handler sends: the route, the principal and the HTTP status.
Response(op, u, status) == [op |-> op, user |-> u, status |-> status]

NoResponse == Response("none", "none", 0)

\* A response is handed to the client before the next step of any handler.
Quiet == resp = NoResponse

(***************************************************************************)
(* The attendance collection.  A document is a record; the collection is   *)
(* a set of documents with distinct _id.                                   *)
(***************************************************************************)
\* new Attendance({...}) of POST /check-in
NewAttendance(employeeId, t) ==
  [id |-> <<employeeId, DayStart(t), 0>>,
   employeeId |-> employeeId,
   date |-> DayStart(t),
   checkIn |-> t,
   standardCheckIn |-> StandardCheckIn(DayStart(t)),
   checkOut |-> NoDate,
   lateMinutes |-> LateMinutes(t, StandardCheckIn(DayStart(t))),
   workingHours |-> 0,
   overtime |-> 0,
   status |-> "present"]

\* A collection without the unique index accepts every insert.
NoUniqueIndex(doc) == FALSE

\* The unique index { employeeId: 1, date: 1 }: an insert that would
\* duplicate the key is refused with E11000.
DuplicateKey(doc) ==
  \E a \in attendances : a.employeeId = doc.employeeId /\ a.date = doc.date

\* The _id of an inserted document: distinct from every stored one.
FreshAttendanceId(doc) ==
  <<doc.employeeId, doc.date,
    1 + Cardinality({a \in attendances :
                       a.employeeId = doc.employeeId /\ a.date = doc.date})>>

\* document.save() of a loaded document: $set of the modified paths on the
\* stored document with the same _id, whatever its current content.
ApplySet(stored, doc, mod) ==
  [stored EXCEPT !.checkOut = IF "checkOut" \in mod THEN doc.checkOut ELSE @,
                 !.workingHours = IF "workingHours" \in mod THEN doc.workingHours ELSE @,
                 !.overtime = IF "overtime" \in mod THEN doc.overtime ELSE @]

SaveAttendance(doc, mod) ==
  {IF a.id = doc.id THEN ApplySet(a, doc, mod) ELSE a : a \in attendances}

\* The paths of a loaded document that an assignment really changed.
Modified(old, new) ==
  {f \in {"checkOut", "workingHours", "overtime"} : old[f] # new[f]}

\* Attendance.findOne({ employeeId: employee._id, date: today }) of check-in
ExistingAttendance(employeeId, today) ==
  {a \in attendances : a.employeeId = employeeId /\ a.date = today}

\* A lookup that forgets whose record it wants.
AnyAttendanceOn(employeeId, today) ==
  {a \in attendances : a.date = today}

\* A lookup that forgets the day.
AttendanceOfEmployee(employeeId, today) ==
  {a \in attendances : a.employeeId = employeeId}

\* Attendance.findOne({ employeeId: employee._id, date: today }) of check-out
TodaysAttendance(employeeId, today) ==
  {a \in attendances : a.employeeId = employeeId /\ a.date = today}

(***************************************************************************)
(* POST /check-in                                                          *)
(***************************************************************************)
\* Lines 90-127: the employee lookup, now and today, the existing-record
\* check and the construction of the document.
CheckInFind(p, u) ==
  /\ Quiet /\ FreeSlot(p)
  /\ IF EmployeeOf(u) = {}
       THEN /\ resp' = Response("checkIn", u, 404)
            /\ UNCHANGED proc
       ELSE LET employee == CHOOSE e \in EmployeeOf(u) : TRUE
                existingAttendance ==
                  ExistingAttendance(employee.id, DayStart(now))
            IN IF existingAttendance # {}
                 THEN /\ resp' = Response("checkIn", u, 400)
                      /\ UNCHANGED proc
                 ELSE /\ proc' = [proc EXCEPT ![p] =
                            [op |-> "checkIn", pc |-> "save", user |-> u,
                             doc |-> {NewAttendance(employee.id, now)},
                             mod |-> {}]]
                      /\ UNCHANGED resp
  /\ UNCHANGED <<now, users, employees, departments, attendances,
                 overtimeRequests, leaves, task, report, ids>>

\* Lines 129-145: attendance.save() and the catch of the handler.
CheckInSave(p) ==
  /\ Quiet /\ proc[p].op = "checkIn" /\ proc[p].pc = "save"
  /\ LET doc == CHOOSE d \in proc[p].doc : TRUE IN
       IF DuplicateKey(doc)
         THEN /\ resp' = Response("checkIn", proc[p].user, 500)
              /\ UNCHANGED attendances
         ELSE /\ attendances' =
                   attendances \cup {[doc EXCEPT !.id = FreshAttendanceId(doc)]}
              /\ resp' = Response("checkIn", proc[p].user, 201)
  /\ proc' = [proc EXCEPT ![p] = IdleProc]
  /\ UNCHANGED <<now, users, employees, departments, overtimeRequests,
                 leaves, task, report, ids>>

(***************************************************************************)
(* POST /check-out                                                         *)
(***************************************************************************)
\* A test that takes every record for open.
NeverCheckedOut(attendance) == FALSE

\* if (attendance.checkOut)
CheckedOut(attendance) == attendance.checkOut # NoDate

\* Lines 173-188: the employee lookup, today, the attendance lookup and the
\* two early returns.  A principal without an employee record makes
\* employee._id throw, which the catch turns into a 500.
CheckOutFind(p, u) ==
  /\ Quiet /\ FreeSlot(p)
  /\ IF EmployeeOf(u) = {}
       THEN /\ resp' = Response("checkOut", u, 500)
            /\ UNCHANGED proc
       ELSE LET employee == CHOOSE e \in EmployeeOf(u) : TRUE
                found == TodaysAttendance(employee.id, DayStart(now))
            IN IF found = {}
                 THEN /\ resp' = Response("checkOut", u, 404)
                      /\ UNCHANGED proc
                 ELSE \E attendance \in found :
                        IF CheckedOut(attendance)
                          THEN /\ resp' = Response("checkOut", u, 400)
                               /\ UNCHANGED proc
                          ELSE /\ proc' = [proc EXCEPT ![p] =
                                     [op |-> "checkOut", pc |-> "overtime",
                                      user |-> u, doc |-> {attendance},
                                      mod |-> {}]]
                               /\ UNCHANGED resp
  /\ UNCHANGED <<now, users, employees, departments, attendances,
                 overtimeRequests, leaves, task, report, ids>>

\* A lookup that takes a request of any status for an approval.
AnyOvertime(employeeId, today) ==
  {r \in overtimeRequests : r.employeeId = employeeId /\ r.date = today}

\* OvertimeRequest.findOne({ employeeId, date: today, status: 'approved' })
ApprovedOvertime(employeeId, today) ==
  {r \in overtimeRequests :
     r.employeeId = employeeId /\ r.date = today /\ r.status = "approved"}

\* Lines 197-208 applied to the loaded document: checkOut, workingHours and,
\* with an approved request and more than 8 hours worked, overtime.
\* found is the result of the lookup, empty or one request.
ComputeCheckOut(attendance, found, t) ==
  LET workingHours == t - attendance.checkIn
      withHours == [attendance EXCEPT !.checkOut = t,
                                      !.workingHours = ToFixed2(workingHours)]
  IN IF found # {} /\ workingHours > standardHours * UnitsPerHour
       THEN LET overtimeRequest == CHOOSE r \in found : TRUE
                actualOvertime == workingHours - standardHours * UnitsPerHour
            IN [withHours EXCEPT
                  !.overtime = Min(actualOvertime, overtimeRequest.requestedHours)]
       ELSE withHours

\* Lines 190-208: the overtime lookup, then the computation on the loaded
\* document.  findOne returns any one of the matching requests.
CheckOutOvertime(p) ==
  /\ Quiet /\ proc[p].op = "checkOut" /\ proc[p].pc = "overtime"
  /\ LET attendance == CHOOSE d \in proc[p].doc : TRUE
         matching == ApprovedOvertime(attendance.employeeId, attendance.date)
     IN \E found \in (IF matching = {} THEN {{}} ELSE {{r} : r \in matching}) :
          LET updated == ComputeCheckOut(attendance, found, now) IN
            proc' = [proc EXCEPT ![p] =
                       [@ EXCEPT !.pc = "save", !.doc = {updated},
                                 !.mod = Modified(attendance, updated)]]
  /\ UNCHANGED <<now, users, employees, departments, attendances,
                 overtimeRequests, leaves, task, resp, report, ids>>

\* Line 210: attendance.save(), then the response.
CheckOutSave(p) ==
  /\ Quiet /\ proc[p].op = "checkOut" /\ proc[p].pc = "save"
  /\ LET doc == CHOOSE d \in proc[p].doc : TRUE IN
       attendances' = SaveAttendance(doc, proc[p].mod)
  /\ resp' = Response("checkOut", proc[p].user, 200)
  /\ proc' = [proc EXCEPT ![p] = IdleProc]
  /\ UNCHANGED <<now, users, employees, departments, overtimeRequests,
                 leaves, task, report, ids>>

\* POST /checkout (lines 617-654): with only the auth middleware in front,
\* req.employee is undefined, so the first statement throws and the catch
\* answers 500 before anything is read or written.
LegacyCheckout(u) ==
  /\ Quiet
  /\ resp' = Response("checkout", u, 500)
  /\ UNCHANGED <<now, users, employees, departments, attendances,
                 overtimeRequests, leaves, proc, task, report, ids>>

(***************************************************************************)
(* Overtime requests                                                       *)
(***************************************************************************)
\* The hours a request body may carry: 1 hour and 3 hours, and 0 and -1
\* hour.
RequestedHours == {0 - UnitsPerHour, 0, 1 * UnitsPerHour, 3 * UnitsPerHour}

\* The dates a request body may carry: midnight of each day and of the day
\* after the last.
RequestDates == {d * UnitsPerDay : d \in 0..(MaxDay + 1)}

\* The principals that ask for overtime and leave.
Requesters == {"u1", "admin"}

\* The _id of a new request: distinct from every stored one.
FreshOvertimeId(employeeId, date, requestedHours) ==
  <<employeeId, date, requestedHours,
    1 + Cardinality({r \in overtimeRequests :
                       /\ r.employeeId = employeeId /\ r.date = date
                       /\ r.requestedHours = requestedHours})>>

\* The ids an approve call may name: the stored ones and one that is not.
UnknownId == <<"none", 0, 0, 0>>
OvertimeIds == {r.id : r \in overtimeRequests} \cup {UnknownId}

\* The status a new OvertimeRequest document takes when the route sets none.
DefaultOvertimeStatus == "pending"

\* A validator that lets every number through.
AnyHours(requestedHours) == TRUE

\* The validation of requestedHours when the document is saved: the hours
\* must be positive.
ValidHours(requestedHours) == requestedHours > 0

\* new OvertimeRequest({ employeeId, date, requestedHours, reason })
NewOvertimeRequest(employeeId, date, requestedHours) ==
  [id |-> FreshOvertimeId(employeeId, date, requestedHours),
   employeeId |-> employeeId,
   date |-> date,
   requestedHours |-> requestedHours,
   status |-> DefaultOvertimeStatus,
   approvedBy |-> "none",
   approvedAt |-> NoDate]

\* A request handler that does not look at the date.
RequestAnyDate(u, date, requestedHours) ==
  /\ Quiet
  /\ Cardinality(overtimeRequests) < MaxRequests
  /\ IF EmployeeOf(u) = {}
       THEN /\ resp' = Response("request", u, 500)
            /\ UNCHANGED overtimeRequests
       ELSE IF ~ValidHours(requestedHours)
         THEN /\ resp' = Response("request", u, 500)
              /\ UNCHANGED overtimeRequests
         ELSE LET employee == CHOOSE e \in EmployeeOf(u) : TRUE IN
              /\ overtimeRequests' = overtimeRequests \cup
                   {NewOvertimeRequest(employee.id, date, requestedHours)}
              /\ resp' = Response("request", u, 201)
  /\ UNCHANGED <<now, users, employees, departments, attendances, leaves,
                 proc, task, report, ids>>

\* POST /request (lines 69-95): the date check comes before the first use
\* of the employee, which throws for a principal without one; a document
\* that save() finds invalid throws as well, and the catch answers 500.
RequestOvertime(u, date, requestedHours) ==
  /\ Quiet
  /\ Cardinality(overtimeRequests) < MaxRequests
  /\ IF date < now
       THEN /\ resp' = Response("request", u, 400)
            /\ UNCHANGED overtimeRequests
       ELSE IF EmployeeOf(u) = {}
         THEN /\ resp' = Response("request", u, 500)
              /\ UNCHANGED overtimeRequests
         ELSE IF ~ValidHours(requestedHours)
           THEN /\ resp' = Response("request", u, 500)
                /\ UNCHANGED overtimeRequests
           ELSE LET employee == CHOOSE e \in EmployeeOf(u) : TRUE IN
                /\ overtimeRequests' = overtimeRequests \cup
                     {NewOvertimeRequest(employee.id, date, requestedHours)}
                /\ resp' = Response("request", u, 201)
  /\ UNCHANGED <<now, users, employees, departments, attendances, leaves,
                 proc, task, report, ids>>

\* An approval that leaves an approved request as it is.
ApprovedOnce(request, u, t) ==
  IF request.status = "approved" THEN request
  ELSE [request EXCEPT !.status = "approved", !.approvedBy = u,
                       !.approvedAt = t]

\* request.status = 'approved'; request.approvedBy = req.user._id;
\* request.approvedAt = new Date()
Approved(request, u, t) ==
  [request EXCEPT !.status = "approved", !.approvedBy = u, !.approvedAt = t]

\* An approval that also grants the requested hours on the records of the
\* employee and day of the request.
ApproveAndGrant(u, id) ==
  /\ Quiet
  /\ IF ~isAdmin(u)
       THEN /\ resp' = Response("approve", u, 403)
            /\ UNCHANGED <<overtimeRequests, attendances>>
       ELSE IF ~\E r \in overtimeRequests : r.id = id
         THEN /\ resp' = Response("approve", u, 404)
              /\ UNCHANGED <<overtimeRequests, attendances>>
         ELSE /\ overtimeRequests' =
                   {IF r.id = id THEN Approved(r, u, now) ELSE r :
                      r \in overtimeRequests}
              /\ attendances' =
                   {IF \E r \in overtimeRequests :
                         /\ r.id = id /\ r.employeeId = a.employeeId
                         /\ r.date = a.date
                      THEN [a EXCEPT !.overtime = id[3]] ELSE a :
                      a \in attendances}
              /\ resp' = Response("approve", u, 200)
  /\ UNCHANGED <<now, users, employees, departments, leaves,
                 proc, task, report, ids>>

\* PUT /approve/:id behind [auth, isAdmin]
ApproveOvertime(u, id) ==
  /\ Quiet
  /\ IF ~isAdmin(u)
       THEN /\ resp' = Response("approve", u, 403)
            /\ UNCHANGED overtimeRequests
       ELSE IF ~\E r \in overtimeRequests : r.id = id
         THEN /\ resp' = Response("approve", u, 404)
              /\ UNCHANGED overtimeRequests
         ELSE /\ overtimeRequests' =
                   {IF r.id = id THEN Approved(r, u, now) ELSE r :
                      r \in overtimeRequests}
              /\ resp' = Response("approve", u, 200)
  /\ UNCHANGED <<now, users, employees, departments, attendances, leaves,
                 proc, task, report, ids>>

(***************************************************************************)
(* POST /leave                                                             *)
(***************************************************************************)
\* new Leave({ employeeId, startDate, endDate, type, reason })
NewLeave(employeeId, startDate, endDate) ==
  [id |-> Cardinality(leaves) + 1,
   employeeId |-> employeeId,
   startDate |-> startDate,
   endDate |-> endDate,
   status |-> "pending"]

RequestLeave(u, startDate, endDate) ==
  /\ Quiet
  /\ Cardinality(leaves) < MaxLeaves
  /\ IF EmployeeOf(u) = {}
       THEN /\ resp' = Response("leave", u, 500)
            /\ UNCHANGED leaves
       ELSE LET employee == CHOOSE e \in EmployeeOf(u) : TRUE IN
            /\ leaves' = leaves \cup {NewLeave(employee.id, startDate, endDate)}
            /\ resp' = Response("leave", u, 201)
  /\ UNCHANGED <<now, users, employees, departments, attendances,
                 overtimeRequests, proc, task, report, ids>>

(***************************************************************************)
(* Employee management: POST / and DELETE /:id of the employees router.    *)
(* One administrative request is in flight at a time; its frame is task,   *)
(* cut at the awaits of the handler.  Every await on the database may      *)
(* reject.                                                                 *)
(***************************************************************************)
MaxCreates == 2

\* The ObjectIds handed to new accounts and new employee records, in the
\* order of their generation; an id is never handed out twice.
UserIdPool == <<"u3", "u4", "u5", "u6">>
EmployeeIdPool == <<"e3", "e4", "e5", "e6">>

\* The ids a DELETE /:id may name.
EmployeeIds == {"e1", "e2", "e3", "e9"}

\* The principals that call the administrative routes.
Admins == {"admin", "u2"}

\* The request bodies of POST /: an email that is taken at the start and one
\* that is not, a department that exists and one that does not, with or
\* without a field the route requires (position), with or without a field
\* only the Employee schema requires (address).
Bodies ==
  [email : {"u1@emp", "new@emp"}, department : {"d1", "d9"},
   position : BOOLEAN, address : BOOLEAN, salary : {176}]

IdleTask ==
  [op |-> "idle", pc |-> "idle", user |-> "none", body |-> {},
   originalBody |-> {}, account |-> "none", count |-> 0, error |-> {},
   failed |-> "none"]

\* auth, then isAdmin: 401 for an account that is gone, 403 for one that is
\* not an administrator, 0 to go on.
Authorise(u) ==
  IF ~\E a \in users : a.id = u THEN 401 ELSE IF ~isAdmin(u) THEN 403 ELSE 0

\* A count of the employees of every department.
CountOfAll(department) == Cardinality(employees)

\* The employeeCount virtual of a department: the number of employee
\* records that refer to it.
EmployeeCount(department) ==
  Cardinality({e \in employees : e.department = department})

\* An error caught by a handler.  mentionsEmployee is
\* error.message.includes('employee').
Error(mentionsEmployee) == [mentionsEmployee |-> mentionsEmployee]

\* The messages of a rejected operation on the employees collection: the
\* driver's text may or may not name the collection.
EmployeeErrors == {Error(TRUE), Error(FALSE)}

\* new User({ email, password, role: 'employee' })
NewUser(id, email) == [id |-> id, email |-> email, role |-> "employee"]

\* new Employee({ userId: user._id, ..., department, salary: Number(salary) })
NewEmployee(id, userId, body) ==
  [id |-> id, userId |-> userId, department |-> body.department,
   salary |-> body.salary]

\* Lines 448-499: auth and isAdmin, then the required fields of the body.
CreateEmployee(u, body) ==
  /\ Quiet /\ task.pc = "idle"
  /\ ids < MaxCreates
  /\ IF Authorise(u) # 0
       THEN /\ resp' = Response("createEmployee", u, Authorise(u))
            /\ UNCHANGED task
       ELSE IF ~body.position
         THEN /\ resp' = Response("createEmployee", u, 400)
              /\ UNCHANGED task
         ELSE /\ task' = [IdleTask EXCEPT !.op = "create", !.pc = "findUser",
                                          !.user = u, !.body = {body}]
              /\ UNCHANGED resp
  /\ UNCHANGED <<now, users, employees, departments, attendances,
                 overtimeRequests, leaves, proc, report, ids>>

\* Lines 502-506: User.findOne({ email })
CreateFindUser ==
  /\ Quiet /\ task.op = "create" /\ task.pc = "findUser"
  /\ LET body == CHOOSE b \in task.body : TRUE IN
       IF \E a \in users : a.email = body.email
         THEN /\ resp' = Response("createEmployee", task.user, 400)
              /\ task' = [task EXCEPT !.pc = "end"]
         ELSE /\ task' = [task EXCEPT !.pc = "findDepartment"]
              /\ UNCHANGED resp
  /\ UNCHANGED <<now, users, employees, departments, attendances,
                 overtimeRequests, leaves, proc, report, ids>>

\* Lines 509-513: Department.findById(department)
CreateFindDepartment ==
  /\ Quiet /\ task.op = "create" /\ task.pc = "findDepartment"
  /\ LET body == CHOOSE b \in task.body : TRUE IN
       IF ~\E d \in departments : d.id = body.department
         THEN /\ resp' = Response("createEmployee", task.user, 400)
              /\ task' = [task EXCEPT !.pc = "end"]
         ELSE /\ task' = [task EXCEPT !.pc = "saveUser"]
              /\ UNCHANGED resp
  /\ UNCHANGED <<now, users, employees, departments, attendances,
                 overtimeRequests, leaves, proc, report, ids>>

\* Lines 519-524: new User(...) and user.save().  A rejected save stores
\* nothing and its message names no employee.
CreateSaveUser(ok) ==
  /\ Quiet /\ task.op = "create" /\ task.pc = "saveUser"
  /\ ids' = ids + 1
  /\ LET body == CHOOSE b \in task.body : TRUE
         user == NewUser(UserIdPool[ids + 1], body.email)
     IN IF ok
          THEN /\ users' = users \cup {user}
               /\ task' = [task EXCEPT !.pc = "saveEmployee", !.account = user.id]
          ELSE /\ UNCHANGED users
               /\ task' = [task EXCEPT !.pc = "catch", !.error = {Error(FALSE)}]
  /\ UNCHANGED <<now, employees, departments, attendances, overtimeRequests,
                 leaves, proc, resp, report>>

\* The outcomes of an operation on the employees collection: done, or
\* rejected with one of the messages.
EmployeeOutcomes == {{}} \cup {{e} : e \in EmployeeErrors}

\* Lines 527-542: new Employee(...) and the insert of employee.save().  The
\* schema requires address, which the route does not check: validation
\* rejects with 'Employee validation failed: ...', which does not contain
\* 'employee'.
CreateSaveEmployee(rejected) ==
  /\ Quiet /\ task.op = "create" /\ task.pc = "saveEmployee"
  /\ LET body == CHOOSE b \in task.body : TRUE IN
       IF ~body.address
         THEN /\ task' = [task EXCEPT !.pc = "catch", !.error = {Error(FALSE)}]
              /\ UNCHANGED employees
         ELSE IF rejected # {}
           THEN /\ task' = [task EXCEPT !.pc = "catch", !.error = rejected]
                /\ UNCHANGED employees
           ELSE /\ employees' = employees \cup
                     {NewEmployee(EmployeeIdPool[ids], task.account, body)}
                /\ task' = [task EXCEPT !.pc = "hook"]
  /\ UNCHANGED <<now, users, departments, attendances, overtimeRequests,
                 leaves, proc, resp, report, ids>>

\* Employee.js 89-95, the post('save') hook inside employee.save():
\* updateOne with $inc of employeeCount, which is a virtual and no stored
\* path, so that nothing is written.  A rejection rejects the save, with the
\* employee record already inserted.
CreateHook(ok) ==
  /\ Quiet /\ task.op = "create" /\ task.pc = "hook"
  /\ task' = IF ok THEN [task EXCEPT !.pc = "count"]
                   ELSE [task EXCEPT !.pc = "catch", !.error = {Error(FALSE)}]
  /\ UNCHANGED <<now, users, employees, departments, attendances,
                 overtimeRequests, leaves, proc, resp, report, ids>>

\* Lines 545-549: Department.findByIdAndUpdate with $inc of employeeCount,
\* which writes nothing either.
CreateCount(ok) ==
  /\ Quiet /\ task.op = "create" /\ task.pc = "count"
  /\ task' = IF ok THEN [task EXCEPT !.pc = "populate"]
                   ELSE [task EXCEPT !.pc = "catch", !.error = {Error(FALSE)}]
  /\ UNCHANGED <<now, users, employees, departments, attendances,
                 overtimeRequests, leaves, proc, resp, report, ids>>

\* Lines 552-561: Employee.findById(...).populate(...), the activity log
\* (whose errors it swallows itself) and the 201.
CreatePopulate(rejected) ==
  /\ Quiet /\ task.op = "create" /\ task.pc = "populate"
  /\ IF rejected # {}
       THEN /\ task' = [task EXCEPT !.pc = "catch", !.error = rejected]
            /\ UNCHANGED resp
       ELSE /\ task' = [task EXCEPT !.pc = "end"]
            /\ resp' = Response("createEmployee", task.user, 201)
  /\ UNCHANGED <<now, users, employees, departments, attendances,
                 overtimeRequests, leaves, proc, report, ids>>

\* Lines 563-566 and 578-582: the catch.  The cleanup runs only for an error
\* whose message contains 'employee'.
CreateCatch ==
  /\ Quiet /\ task.op = "create" /\ task.pc = "catch"
  /\ LET error == CHOOSE e \in task.error : TRUE IN
       IF error.mentionsEmployee
         THEN /\ task' = [task EXCEPT !.pc = "cleanup"]
              /\ UNCHANGED resp
         ELSE /\ task' = [task EXCEPT !.pc = "end"]
              /\ resp' = Response("createEmployee", task.user, 500)
  /\ UNCHANGED <<now, users, employees, departments, attendances,
                 overtimeRequests, leaves, proc, report, ids>>

\* Lines 567-582: User.findOne({ email }) and User.deleteOne, a rejection of
\* which is caught and logged; then the 500.
CreateCleanup(ok) ==
  /\ Quiet /\ task.op = "create" /\ task.pc = "cleanup"
  /\ LET body == CHOOSE b \in task.body : TRUE IN
       users' = IF ok THEN {a \in users : a.email # body.email} ELSE users
  /\ task' = [task EXCEPT !.pc = "end"]
  /\ resp' = Response("createEmployee", task.user, 500)
  /\ UNCHANGED <<now, employees, departments, attendances, overtimeRequests,
                 leaves, proc, report, ids>>

\* Swapped: the employee record is removed before the account.
EmployeeFirst == <<"employee", "user", "count">>

\* Lines 725-739: the writes of DELETE /:id in their order.
DeleteSteps == <<"user", "employee", "count">>

\* The step after pc, "respond" after the last.
After(steps, pc) ==
  LET i == CHOOSE k \in 1..Len(steps) : steps[k] = pc
  IN IF i = Len(steps) THEN "respond" ELSE steps[i + 1]

\* Lines 715-723: auth and isAdmin, Employee.findById and the copy of the
\* record in req.originalBody.  count is the department's employee count at
\* that moment.
DeleteEmployee(u, id) ==
  /\ Quiet /\ task.pc = "idle"
  /\ IF Authorise(u) # 0
       THEN /\ resp' = Response("deleteEmployee", u, Authorise(u))
            /\ UNCHANGED task
       ELSE IF ~\E e \in employees : e.id = id
         THEN /\ resp' = Response("deleteEmployee", u, 404)
              /\ UNCHANGED task
         ELSE LET employee == CHOOSE e \in employees : e.id = id IN
              /\ task' = [IdleTask EXCEPT
                            !.op = "delete", !.pc = DeleteSteps[1], !.user = u,
                            !.originalBody = {employee},
                            !.count = EmployeeCount(employee.department)]
              /\ UNCHANGED resp
  /\ UNCHANGED <<now, users, employees, departments, attendances,
                 overtimeRequests, leaves, proc, report, ids>>

\* Lines 725-757: User.findByIdAndDelete, Employee.findByIdAndDelete or
\* Department.findByIdAndUpdate, whichever is due; after the last the
\* activity log and the 200.  A rejection goes to the catch, which answers
\* 500 and undoes nothing.
DeleteStep(ok) ==
  /\ Quiet /\ task.op = "delete" /\ task.pc \notin {"end", "idle"}
  /\ LET employee == CHOOSE e \in task.originalBody : TRUE IN
       /\ users' = IF ok /\ task.pc = "user"
                     THEN {a \in users : a.id # employee.userId} ELSE users
       /\ employees' = IF ok /\ task.pc = "employee"
                         THEN {e \in employees : e.id # employee.id}
                         ELSE employees
  /\ IF ~ok
       THEN /\ task' = [task EXCEPT !.pc = "end", !.failed = task.pc]
            /\ resp' = Response("deleteEmployee", task.user, 500)
       ELSE IF After(DeleteSteps, task.pc) = "respond"
         THEN /\ task' = [task EXCEPT !.pc = "end"]
              /\ resp' = Response("deleteEmployee", task.user, 200)
         ELSE /\ task' = [task EXCEPT !.pc = After(DeleteSteps, task.pc)]
              /\ UNCHANGED resp
  /\ UNCHANGED <<now, departments, attendances, overtimeRequests, leaves,
                 proc, report, ids>>

(***************************************************************************)
(* Departments: DELETE /:id, PUT /:id, POST /:id/transfer and GET / of the *)
(* departments router, and PUT /:id of the employees router.  Each handler *)
(* is cut at its awaits and runs in a slot of proc; doc holds what the     *)
(* handler has loaded.                                                     *)
(***************************************************************************)
\* The ids a department route may name: two that exist and one that does
\* not.
DepartmentIds == {"d1", "d2", "d9"}

\* The employeeIds of a transfer body.
TransferLists == {{"e1"}, {"e1", "e2"}}

\* A handler in slot p at step pc with what it loaded.
Running(op, pc, u, loaded) ==
  [op |-> op, pc |-> pc, user |-> u, doc |-> {loaded}, mod |-> {}]

\* What the handler of slot p loaded.
Loaded(p) == CHOOSE d \in proc[p].doc : TRUE

\* A count that takes every department for empty.
NobodyIn(department) == 0

\* Employee.countDocuments({ department: department._id })
CountDocuments(department) ==
  Cardinality({e \in employees : e.department = department})

\* DELETE /:id, lines 170-175: auth, isAdmin and Department.findById
DeleteDepartmentFind(p, u, id) ==
  /\ Quiet /\ FreeSlot(p)
  /\ IF Authorise(u) # 0
       THEN /\ resp' = Response("deleteDepartment", u, Authorise(u))
            /\ UNCHANGED proc
       ELSE IF ~\E d \in departments : d.id = id
         THEN /\ resp' = Response("deleteDepartment", u, 404)
              /\ UNCHANGED proc
         ELSE /\ proc' = [proc EXCEPT ![p] =
                    Running("deleteDepartment", "count", u,
                            CHOOSE d \in departments : d.id = id)]
              /\ UNCHANGED resp
  /\ UNCHANGED <<now, users, employees, departments, attendances,
                 overtimeRequests, leaves, task, report, ids>>

\* Lines 177-184: the count of the employees of the department, and the 400
\* when there is one.
DeleteDepartmentCount(p) ==
  /\ Quiet /\ proc[p].op = "deleteDepartment" /\ proc[p].pc = "count"
  /\ IF CountDocuments(Loaded(p).id) > 0
       THEN /\ resp' = Response("deleteDepartment", proc[p].user, 400)
            /\ proc' = [proc EXCEPT ![p] = IdleProc]
       ELSE /\ proc' = [proc EXCEPT ![p] = [@ EXCEPT !.pc = "save"]]
            /\ UNCHANGED resp
  /\ UNCHANGED <<now, users, employees, departments, attendances,
                 overtimeRequests, leaves, task, report, ids>>

\* Lines 186-189: department.isActive = false, save() and the 200.
DeleteDepartmentSave(p) ==
  /\ Quiet /\ proc[p].op = "deleteDepartment" /\ proc[p].pc = "save"
  /\ departments' =
       {IF d.id = Loaded(p).id THEN [d EXCEPT !.isActive = FALSE] ELSE d :
          d \in departments}
  /\ resp' = Response("deleteDepartment", proc[p].user, 200)
  /\ proc' = [proc EXCEPT ![p] = IdleProc]
  /\ UNCHANGED <<now, users, employees, attendances, overtimeRequests,
                 leaves, task, report, ids>>

\* PUT /:id of a department with { isActive } in the body, lines 141-148:
\* auth, isAdmin and Department.findById
UpdateDepartmentFind(p, u, id, isActive) ==
  /\ Quiet /\ FreeSlot(p)
  /\ IF Authorise(u) # 0
       THEN /\ resp' = Response("updateDepartment", u, Authorise(u))
            /\ UNCHANGED proc
       ELSE IF ~\E d \in departments : d.id = id
         THEN /\ resp' = Response("updateDepartment", u, 404)
              /\ UNCHANGED proc
         ELSE /\ proc' = [proc EXCEPT ![p] =
                    Running("updateDepartment", "save", u,
                            [id |-> id, isActive |-> isActive])]
              /\ UNCHANGED resp
  /\ UNCHANGED <<now, users, employees, departments, attendances,
                 overtimeRequests, leaves, task, report, ids>>

\* Lines 160-163: department.isActive = isActive, save() and the 200.
UpdateDepartmentSave(p) ==
  /\ Quiet /\ proc[p].op = "updateDepartment" /\ proc[p].pc = "save"
  /\ departments' =
       {IF d.id = Loaded(p).id
          THEN [d EXCEPT !.isActive = Loaded(p).isActive] ELSE d :
          d \in departments}
  /\ resp' = Response("updateDepartment", proc[p].user, 200)
  /\ proc' = [proc EXCEPT ![p] = IdleProc]
  /\ UNCHANGED <<now, users, employees, attendances, overtimeRequests,
                 leaves, task, report, ids>>

\* POST /:id/transfer, lines 229-237: auth, isAdmin and
\* Department.findById(newDepartmentId)
TransferFind(p, u, employeeIds, newDepartmentId) ==
  /\ Quiet /\ FreeSlot(p)
  /\ IF Authorise(u) # 0
       THEN /\ resp' = Response("transfer", u, Authorise(u))
            /\ UNCHANGED proc
       ELSE IF ~\E d \in departments : d.id = newDepartmentId
         THEN /\ resp' = Response("transfer", u, 404)
              /\ UNCHANGED proc
         ELSE /\ proc' = [proc EXCEPT ![p] =
                    Running("transfer", "update", u,
                            [employeeIds |-> employeeIds,
                             newDepartmentId |-> newDepartmentId])]
              /\ UNCHANGED resp
  /\ UNCHANGED <<now, users, employees, departments, attendances,
                 overtimeRequests, leaves, task, report, ids>>

\* Lines 240-245: Employee.updateMany({ _id: { $in: employeeIds } },
\* { department: newDepartmentId }) and the 200.
TransferUpdate(p) ==
  /\ Quiet /\ proc[p].op = "transfer" /\ proc[p].pc = "update"
  /\ employees' =
       {IF e.id \in Loaded(p).employeeIds
          THEN [e EXCEPT !.department = Loaded(p).newDepartmentId] ELSE e :
          e \in employees}
  /\ resp' = Response("transfer", proc[p].user, 200)
  /\ proc' = [proc EXCEPT ![p] = IdleProc]
  /\ UNCHANGED <<now, users, departments, attendances, overtimeRequests,
                 leaves, task, report, ids>>

\* A check that finds every department.
EveryDepartment(id) == TRUE

\* Department.findById(updateData.department) of PUT /:id of an employee
DepartmentExists(id) == \E d \in departments : d.id = id

\* PUT /:id of an employee with { department } in the body, lines 629-645:
\* auth, isAdmin, Employee.findById, and for a department other than the
\* employee's the lookup of that department.
UpdateEmployeeFind(p, u, id, department) ==
  /\ Quiet /\ FreeSlot(p)
  /\ IF Authorise(u) # 0
       THEN /\ resp' = Response("updateEmployee", u, Authorise(u))
            /\ UNCHANGED proc
       ELSE IF ~\E e \in employees : e.id = id
         THEN /\ resp' = Response("updateEmployee", u, 404)
              /\ UNCHANGED proc
         ELSE LET employee == CHOOSE e \in employees : e.id = id IN
              /\ proc' = [proc EXCEPT ![p] =
                    Running("updateEmployee",
                            IF department # employee.department
                              THEN "department" ELSE "save",
                            u, [id |-> id, department |-> department])]
              /\ UNCHANGED resp
  /\ UNCHANGED <<now, users, employees, departments, attendances,
                 overtimeRequests, leaves, task, report, ids>>

\* Lines 640-645: the 400 for a department that does not exist.
UpdateEmployeeDepartment(p) ==
  /\ Quiet /\ proc[p].op = "updateEmployee" /\ proc[p].pc = "department"
  /\ IF ~DepartmentExists(Loaded(p).department)
       THEN /\ resp' = Response("updateEmployee", proc[p].user, 400)
            /\ proc' = [proc EXCEPT ![p] = IdleProc]
       ELSE /\ proc' = [proc EXCEPT ![p] = [@ EXCEPT !.pc = "save"]]
            /\ UNCHANGED resp
  /\ UNCHANGED <<now, users, employees, departments, attendances,
                 overtimeRequests, leaves, task, report, ids>>

\* Lines 672-685: Object.assign(employee, updateData), save() and the 200;
\* a save of a record that is gone throws, and the catch answers 400.
UpdateEmployeeSave(p) ==
  /\ Quiet /\ proc[p].op = "updateEmployee" /\ proc[p].pc = "save"
  /\ IF ~\E e \in employees : e.id = Loaded(p).id
       THEN /\ resp' = Response("updateEmployee", proc[p].user, 400)
            /\ UNCHANGED employees
       ELSE /\ employees' =
                 {IF e.id = Loaded(p).id
                    THEN [e EXCEPT !.department = Loaded(p).department]
                    ELSE e : e \in employees}
            /\ resp' = Response("updateEmployee", proc[p].user, 200)
  /\ proc' = [proc EXCEPT ![p] = IdleProc]
  /\ UNCHANGED <<now, users, departments, attendances, overtimeRequests,
                 leaves, task, report, ids>>

\* POST /avatar behind [auth, isOwner, upload]: 404 for a principal without
\* an employee record, 400 without a file; otherwise avatarUrl is set and
\* the employee saved, which runs the post('save') hook.  Neither the
\* avatar nor the hook's $inc of the employeeCount virtual is part of the
\* state.
ChangeAvatar(u, uploaded) ==
  /\ Quiet
  /\ resp' = Response("avatar", u,
                      IF EmployeeOf(u) = {} THEN 404
                      ELSE IF ~uploaded THEN 400 ELSE 200)
  /\ UNCHANGED <<now, users, employees, departments, attendances,
                 overtimeRequests, leaves, proc, task, report, ids>>

\* GET / of the departments router: the active departments, each with its
\* employeeCount virtual populated.
GetDepartments(u) ==
  /\ Quiet
  /\ IF ~\E a \in users : a.id = u
       THEN /\ resp' = Response("departments", u, 401)
            /\ UNCHANGED report
       ELSE /\ resp' = Response("departments", u, 200)
            /\ report' =
                 {[route |-> "departments",
                   departments |->
                     {[id |-> d.id, employeeCount |-> EmployeeCount(d.id)] :
                        d \in {x \in departments : x.isActive}}]}
  /\ UNCHANGED <<now, users, employees, departments, attendances,
                 overtimeRequests, leaves, proc, task, ids>>

(***************************************************************************)
(* Report summaries: GET /salary of the statistics router and              *)
(* GET /report/all of the attendance router.  Money is counted in          *)
(* hundredths, hours in hundredths of an hour; a quotient that JavaScript  *)
(* leaves unrounded is kept as a fraction.                                 *)
(***************************************************************************)
\* The lengths of the months of the report year, January to June.
MonthLengths == <<31, 28, 31, 30, 31, 30>>

\* The query parameters of the reports: type, and month or quarter as the
\* number the query string holds, in tenths (5 is '0.5', 10 is '1'), 0 when
\* the parameter is missing.
ReportTypes == {"month", "quarter", "week"}
PeriodNumbers == {0, 5, 10, 20}

\* The department filter of GET /report/all.
DepartmentFilters == {"none", "d1"}

RECURSIVE DaysBefore(_)
\* The days from the first of January to the first of month m; month 0 is
\* the December before.
DaysBefore(m) ==
  IF m = 1 THEN 0
  ELSE IF m = 0 THEN 0 - 31
  ELSE MonthLengths[m - 1] + DaysBefore(m - 1)

\* The Date constructor takes the integer part of a month a / b, towards
\* zero.
Trunc(a, b) == IF a >= 0 THEN a \div b ELSE 0 - ((0 - a) \div b)

\* new Date(year, index, day): midnight of the day of the month with that
\* index, January being 0; day 0 is the day before the first.
MakeDay(index, day) == (DaysBefore(index + 1) + day - 1) * UnitsPerDay

\* new Date(year, month - 1, 1), and new Date(year, startMonth, 1) with
\* startMonth = (quarter - 1) * 3
PeriodStart(type, n) ==
  IF type = "month" THEN MakeDay(Trunc(n - 10, 10), 1)
                    ELSE MakeDay(Trunc((n - 10) * 3, 10), 1)

\* new Date(year, month, 0) and new Date(year, startMonth + 3, 0): midnight
\* of the day before the first of the month that follows.
PeriodEnd(type, n) ==
  IF type = "month" THEN MakeDay(Trunc(n, 10), 0)
                    ELSE MakeDay(Trunc((n - 10) * 3 + 30, 10), 0)

\* A JavaScript number: a fraction, NaN or Infinity.
Finite(num, den) == [kind |-> "finite", num |-> num, den |-> den]
NaN == [kind |-> "NaN", num |-> 0, den |-> 0]
Infinity == [kind |-> "Infinity", num |-> 0, den |-> 0]

\* a / b of two non-negative numbers
JsDivide(a, b) ==
  IF b = 0 THEN (IF a = 0 THEN NaN ELSE Infinity) ELSE Finite(a, b)

\* Number(x.toFixed(2)): hundredths, rounded to the nearest; 'NaN' and
\* 'Infinity' parse back to themselves.
NumberToFixed2(x) ==
  IF x.kind # "finite" THEN x
  ELSE Finite((2 * 100 * x.num + x.den) \div (2 * x.den), 100)

\* { $round: [a / b, 0] } of MongoDB: to the nearest integer, a tie to the
\* even one.
Round(a, b) ==
  LET q == a \div b
      r == a % b
  IN IF 2 * r < b THEN q
     ELSE IF 2 * r > b THEN q + 1
     ELSE IF q % 2 = 0 THEN q ELSE q + 1

RECURSIVE Sum(_, _)
\* The sum of f over the set S.
Sum(f, S) ==
  IF S = {} THEN 0
  ELSE LET x == CHOOSE y \in S : TRUE IN f[x] + Sum(f, S \ {x})

\* A range that stops short of its last day.
PresentBeforeEnd(employee, startDate, endDate) ==
  {a \in attendances :
     /\ a.employeeId = employee.id
     /\ a.date >= startDate /\ a.date < endDate
     /\ a.status = "present"}

\* The inner pipeline of the first $lookup: the employee's records of the
\* period with status present.
PresentInPeriod(employee, startDate, endDate) ==
  {a \in attendances :
     /\ a.employeeId = employee.id
     /\ a.date >= startDate /\ a.date <= endDate
     /\ a.status = "present"}

\* A row that pays overtime at twice the hourly rate.
DoubleTimeRow(employee, startDate, endDate) ==
  LET records == PresentInPeriod(employee, startDate, endDate)
      workingHours == Sum([a \in records |-> a.workingHours], records)
      overtimeHours == Sum([a \in records |-> a.overtime], records)
      perMonth == standardHours * 22
  IN [id |-> employee.id,
      department |-> employee.department,
      baseSalary |-> employee.salary,
      workingHours |-> workingHours,
      overtimeHours |-> overtimeHours,
      regularPay |-> Round(employee.salary * workingHours, perMonth),
      overtimePay |->
        Round(employee.salary * overtimeHours * 200,
              perMonth * UnitsPerHour),
      totalSalary |->
        Round(employee.salary * workingHours * UnitsPerHour
                + employee.salary * overtimeHours * 200,
              perMonth * UnitsPerHour)]

\* $addFields and $project for one employee, in hundredths: regularPay is
\* salary / (8 * 22) times the hours, overtimePay is salary / (8 * 22) times
\* the overtime hours times 1.5, each rounded to 2 places, and totalSalary
\* is their unrounded sum rounded to 2 places.
SalaryRow(employee, startDate, endDate) ==
  LET records == PresentInPeriod(employee, startDate, endDate)
      workingHours == Sum([a \in records |-> a.workingHours], records)
      overtimeHours == Sum([a \in records |-> a.overtime], records)
      perMonth == standardHours * 22
  IN [id |-> employee.id,
      department |-> employee.department,
      baseSalary |-> employee.salary,
      workingHours |-> workingHours,
      overtimeHours |-> overtimeHours,
      regularPay |-> Round(employee.salary * workingHours, perMonth),
      overtimePay |->
        Round(employee.salary * overtimeHours * 150,
              perMonth * UnitsPerHour),
      totalSalary |->
        Round(employee.salary * workingHours * UnitsPerHour
                + employee.salary * overtimeHours * 150,
              perMonth * UnitsPerHour)]

\* An aggregate that keeps only the employees with a counted record in the
\* period.
StatsOfAttended(startDate, endDate) ==
  LET rows == {SalaryRow(e, startDate, endDate) :
                 e \in {x \in employees :
                          /\ \E d \in departments : d.id = x.department
                          /\ PresentInPeriod(x, startDate, endDate) # {}}}
  IN {[department |-> d,
       employees |-> {r \in rows : r.department = d},
       totalEmployees |-> Cardinality({r \in rows : r.department = d}),
       totalRegularPay |->
         Sum([r \in rows |-> r.regularPay], {r \in rows : r.department = d}),
       totalOvertimePay |->
         Sum([r \in rows |-> r.overtimePay], {r \in rows : r.department = d}),
       totalSalary |->
         Sum([r \in rows |-> r.totalSalary], {r \in rows : r.department = d})] :
        d \in {r.department : r \in rows}}

\* The aggregate of GET /salary: one row per employee whose department
\* exists ($unwind drops the others), grouped by department.
SalaryStats(startDate, endDate) ==
  LET rows == {SalaryRow(e, startDate, endDate) :
                 e \in {x \in employees :
                          \E d \in departments : d.id = x.department}}
  IN {[department |-> d,
       employees |-> {r \in rows : r.department = d},
       totalEmployees |-> Cardinality({r \in rows : r.department = d}),
       totalRegularPay |->
         Sum([r \in rows |-> r.regularPay], {r \in rows : r.department = d}),
       totalOvertimePay |->
         Sum([r \in rows |-> r.overtimePay], {r \in rows : r.department = d}),
       totalSalary |->
         Sum([r \in rows |-> r.totalSalary], {r \in rows : r.department = d})] :
        d \in {r.department : r \in rows}}

\* Lines 336-349: the period, the departments of the aggregate and the
\* summary over them.
SalarySummary(type, n, stats) ==
  LET totalEmployees == Sum([s \in stats |-> s.totalEmployees], stats)
      totalSalary == Sum([s \in stats |-> s.totalSalary], stats)
  IN [route |-> "salary",
      period |-> [type |-> type, n |-> n],
      departments |-> stats,
      totalEmployees |-> totalEmployees,
      totalSalary |-> totalSalary,
      averages |-> <<JsDivide(totalSalary, totalEmployees)>>]

\* GET /salary behind [auth, isAdmin]
GetSalary(u, type, n) ==
  /\ Quiet
  /\ IF Authorise(u) # 0
       THEN /\ resp' = Response("salary", u, Authorise(u))
            /\ UNCHANGED report
       ELSE IF type \notin {"month", "quarter"} \/ n = 0
         THEN /\ resp' = Response("salary", u, 400)
              /\ UNCHANGED report
         ELSE /\ resp' = Response("salary", u, 200)
              /\ report' =
                   {SalarySummary(type, n,
                                  SalaryStats(PeriodStart(type, n),
                                              PeriodEnd(type, n)))}
  /\ UNCHANGED <<now, users, employees, departments, attendances,
                 overtimeRequests, leaves, proc, task, ids>>

\* The $match of calculateSalary: the employee's records of the month with
\* status present.
PresentInMonth(employee, month) ==
  {a \in attendances :
     /\ a.employeeId = employee.id
     /\ a.date >= PeriodStart("month", month)
     /\ a.date <= PeriodEnd("month", month)
     /\ a.status = "present"}

\* Employee.js 111-146, employee.calculateSalary(month, year): the sums of
\* the month, 0 without a record, and the pay in hundredths, each figure
\* through Number(x.toFixed(2)).
SalaryOf(employee, month) ==
  LET records == PresentInMonth(employee, month)
      totalWorkingHours == Sum([a \in records |-> a.workingHours], records)
      totalOvertimeHours == Sum([a \in records |-> a.overtime], records)
      perMonth == standardHours * 22
      \* Number(x.toFixed(2)) of x = num / den hundredths, in hundredths
      Hundredths(num, den) == (2 * num + den) \div (2 * den)
  IN [id |-> employee.id,
      baseSalary |-> employee.salary,
      workingHours |-> totalWorkingHours,
      overtimeHours |-> totalOvertimeHours,
      regularPay |-> Hundredths(employee.salary * totalWorkingHours, perMonth),
      overtimePay |->
        Hundredths(employee.salary * totalOvertimeHours * 150,
                   perMonth * UnitsPerHour),
      totalSalary |->
        Hundredths(employee.salary * totalWorkingHours * UnitsPerHour
                     + employee.salary * totalOvertimeHours * 150,
                   perMonth * UnitsPerHour)]

\* A call of calculateSalary on a stored employee.
CalculateSalary(employee, month) ==
  /\ Quiet
  /\ employee \in employees
  /\ report' = {[route |-> "calculateSalary",
                 period |-> [type |-> "month", n |-> month],
                 employee |-> SalaryOf(employee, month)]}
  /\ UNCHANGED <<now, users, employees, departments, attendances,
                 overtimeRequests, leaves, proc, task, resp, ids>>

\* The first aggregate of GET /report/all: the employees that have a record
\* in the month, with their own record and their department stored.
ReportData(startDate, endDate) ==
  {a.employeeId : a \in
     {x \in attendances :
        /\ x.date >= startDate /\ x.date <= endDate
        /\ \E e \in employees :
             /\ e.id = x.employeeId
             /\ \E d \in departments : d.id = e.department}}

\* The second aggregate, run with an empty result of the first as the head
\* of its pipeline: the $match of the department filter, which no attendance
\* record passes, and the $project, applied to the whole collection.
ReportRows(department) == IF department # "none" THEN {} ELSE attendances

\* Lines 596-602.  A row of the second aggregate has neither
\* totalWorkingHours nor totalOvertimeHours nor totalLateMinutes ($round of
\* a missing field is null), so each sum is 0.
TotalSummary(rows) ==
  [route |-> "reportAll",
   totalEmployees |-> Cardinality(rows),
   totalSalary |-> 0,
   averages |-> <<NumberToFixed2(JsDivide(0, Cardinality(rows))),
                  NumberToFixed2(JsDivide(0, Cardinality(rows)))>>]

\* GET /report/all behind [auth, isAdmin].  Attendance.aggregate(data)
\* takes the result of the first aggregate for a pipeline: with a row in it
\* the call throws and the catch answers 500.
ReportAll(u, month, department) ==
  /\ Quiet
  /\ IF Authorise(u) # 0
       THEN /\ resp' = Response("reportAll", u, Authorise(u))
            /\ UNCHANGED report
       ELSE IF ReportData(PeriodStart("month", month),
                          PeriodEnd("month", month)) # {}
         THEN /\ resp' = Response("reportAll", u, 500)
              /\ UNCHANGED report
         ELSE /\ resp' = Response("reportAll", u, 200)
              /\ report' = {TotalSummary(ReportRows(department))}
  /\ UNCHANGED <<now, users, employees, departments, attendances,
                 overtimeRequests, leaves, proc, task, ids>>

(***************************************************************************)
(* The clock                                                               *)
(***************************************************************************)
\* A clock that may be set back.
Rewind(lastDay) ==
  /\ Quiet
  /\ \E t \in InstantsUpTo(lastDay) : t # now /\ now' = t
  /\ UNCHANGED <<users, employees, departments, attendances,
                 overtimeRequests, leaves, proc, task, resp, report, ids>>

\* new Date() of successive calls: time moves forward.
Tick(lastDay) ==
  /\ Quiet
  /\ \E t \in InstantsUpTo(lastDay) : t > now /\ now' = t
  /\ UNCHANGED <<users, employees, departments, attendances,
                 overtimeRequests, leaves, proc, task, resp, report, ids>>

(***************************************************************************)
(* The attendance system: two employees with their accounts, one           *)
(* administrator, one department, nothing recorded yet.                    *)
(***************************************************************************)
InitUsers ==
  {[id |-> "u1", email |-> "u1@emp", role |-> "employee"],
   [id |-> "u2", email |-> "u2@emp", role |-> "employee"],
   [id |-> "admin", email |-> "admin@emp", role |-> "admin"]}

InitEmployees ==
  {[id |-> "e1", userId |-> "u1", department |-> "d1", salary |-> 176],
   [id |-> "e2", userId |-> "u2", department |-> "d1", salary |-> 352]}

InitDepartments == {[id |-> "d1", isActive |-> TRUE]}

Init ==
  /\ now = 0
  /\ users = InitUsers
  /\ employees = InitEmployees
  /\ departments = InitDepartments
  /\ attendances = {}
  /\ overtimeRequests = {}
  /\ leaves = {}
  /\ proc = [p \in Procs |-> IdleProc]
  /\ task = IdleTask
  /\ resp = NoResponse
  /\ report = {}
  /\ ids = 0

\* An approved request of e1 for one hour on day 0.
SampleRequest ==
  [id |-> <<"e1", 0, UnitsPerHour, 1>>, employeeId |-> "e1", date |-> 0,
   requestedHours |-> UnitsPerHour, status |-> "approved",
   approvedBy |-> "admin", approvedAt |-> 0]

\* A record as stored: with the _id of the first insert of its key.
Stored(doc) == [doc EXCEPT !.id = <<doc.employeeId, doc.date, 1>>]

\* A day of work as the handlers record it: in at 08:15:12 and out at
\* 18:00:12 of the day, without an approved request.
WorkedDay(employeeId, day) ==
  Stored(ComputeCheckOut(
           NewAttendance(employeeId, day * UnitsPerDay + 8 * UnitsPerHour + 76),
           {}, day * UnitsPerDay + 18 * UnitsPerHour + 1))

\* Records the handlers produce: e1 in at 08:15:12 and out at 18:00:12 of
\* day 0 with the approved request, e2 in at 00:00 and out at 18:00:12 of
\* day 0 without one, e1 at work on February 1, e2 at work on January 31;
\* and a record of e2 for January 15 whose status was set to leave, which
\* the schema allows (Attendance.js:36-40).
SampleAttendances ==
  {Stored(ComputeCheckOut(NewAttendance("e1", 8 * UnitsPerHour + 76),
                          {SampleRequest}, 18 * UnitsPerHour + 1)),
   Stored(ComputeCheckOut(NewAttendance("e2", 0), {}, 18 * UnitsPerHour + 1)),
   WorkedDay("e1", 31),
   WorkedDay("e2", 30),
   [WorkedDay("e2", 14) EXCEPT !.status = "leave"]}

\* The system when a report is asked for: any of the two employees may have
\* been removed, any of the sample records may be stored.
InitPay ==
  /\ now = 32 * UnitsPerDay
  /\ users = InitUsers
  /\ employees \in SUBSET InitEmployees
  /\ departments = InitDepartments
  /\ attendances \in SUBSET SampleAttendances
  /\ overtimeRequests = {SampleRequest}
  /\ leaves = {}
  /\ proc = [p \in Procs |-> IdleProc]
  /\ task = IdleTask
  /\ resp = NoResponse
  /\ report = {}
  /\ ids = 0

\* The client receives the response, and the handler that sent it returns.
Reply ==
  /\ ~Quiet
  /\ resp' = NoResponse
  /\ task' = IF task.pc = "end" THEN IdleTask ELSE task
  /\ UNCHANGED <<now, users, employees, departments, attendances,
                 overtimeRequests, leaves, proc, report, ids>>

\* The attendance ledger, the overtime gate and the leave register.
Next ==
  \/ Reply
  \/ Tick(MaxDay)
  \/ \E p \in Procs, u \in UserIds : CheckInFind(p, u)
  \/ \E p \in Procs : CheckInSave(p)
  \/ \E p \in Procs, u \in UserIds : CheckOutFind(p, u)
  \/ \E p \in Procs : CheckOutOvertime(p)
  \/ \E p \in Procs : CheckOutSave(p)
  \/ \E u \in UserIds : LegacyCheckout(u)
  \/ \E u \in Requesters, d \in RequestDates, h \in RequestedHours :
       RequestOvertime(u, d, h)
  \/ \E u \in UserIds, id \in OvertimeIds : ApproveOvertime(u, id)
  \/ \E u \in Requesters, s \in DayStarts, e \in DayStarts :
       RequestLeave(u, s, e)

Spec == Init /\ [][Next]_vars

\* Check-in requests alone, over one day more than Spec: any interleaving
\* of the check-ins of every principal, two of them in flight.
NextCheckIn ==
  \/ Reply
  \/ Tick(MaxDay + 1)
  \/ \E p \in Procs, u \in UserIds : CheckInFind(p, u)
  \/ \E p \in Procs : CheckInSave(p)

SpecCheckIn == Init /\ [][NextCheckIn]_vars

\* The morning of the day after the last day of Spec: of that last day, any
\* of a record of e1 left open and a record of e2 checked out may be stored.
InitNextDay ==
  /\ now = (MaxDay + 1) * UnitsPerDay
  /\ users = InitUsers
  /\ employees = InitEmployees
  /\ departments = InitDepartments
  /\ attendances \in SUBSET
       {Stored(NewAttendance("e1", MaxDay * UnitsPerDay + 8 * UnitsPerHour + 76)),
        WorkedDay("e2", MaxDay)}
  /\ overtimeRequests = {}
  /\ leaves = {}
  /\ proc = [p \in Procs |-> IdleProc]
  /\ task = IdleTask
  /\ resp = NoResponse
  /\ report = {}
  /\ ids = 0

\* Check-in and check-out alone, on that day.
NextAttendance ==
  \/ Reply
  \/ Tick(MaxDay + 1)
  \/ \E p \in Procs, u \in UserIds : CheckInFind(p, u)
  \/ \E p \in Procs : CheckInSave(p)
  \/ \E p \in Procs, u \in UserIds : CheckOutFind(p, u)
  \/ \E p \in Procs : CheckOutOvertime(p)
  \/ \E p \in Procs : CheckOutSave(p)

SpecAttendance == InitNextDay /\ [][NextAttendance]_vars

\* Employee management alone.
NextEmp ==
  \/ Reply
  \/ \E u \in Admins, body \in Bodies : CreateEmployee(u, body)
  \/ CreateFindUser
  \/ CreateFindDepartment
  \/ \E ok \in BOOLEAN : CreateSaveUser(ok)
  \/ \E rejected \in EmployeeOutcomes : CreateSaveEmployee(rejected)
  \/ \E ok \in BOOLEAN : CreateHook(ok)
  \/ \E ok \in BOOLEAN : CreateCount(ok)
  \/ \E rejected \in EmployeeOutcomes : CreatePopulate(rejected)
  \/ CreateCatch
  \/ \E ok \in BOOLEAN : CreateCleanup(ok)
  \/ \E u \in Admins, id \in EmployeeIds : DeleteEmployee(u, id)
  \/ \E ok \in BOOLEAN : DeleteStep(ok)

SpecEmp == Init /\ [][NextEmp]_vars

\* The bodies of POST / of the employees router that differ in the
\* department only.
DepartmentBodies ==
  [email : {"new@emp"}, department : DepartmentIds, position : {TRUE},
   address : {TRUE}, salary : {176}]

\* Two departments, d1 with the two employees and d2 without any.
InitDept ==
  /\ now = 0
  /\ users = InitUsers
  /\ employees = InitEmployees
  /\ departments = InitDepartments \cup {[id |-> "d2", isActive |-> TRUE]}
  /\ attendances = {}
  /\ overtimeRequests = {}
  /\ leaves = {}
  /\ proc = [p \in Procs |-> IdleProc]
  /\ task = IdleTask
  /\ resp = NoResponse
  /\ report = {}
  /\ ids = 0

\* The employees created next to the department routes.
MaxHires == 1

\* The department routes with the creation and the update of employees,
\* two handlers in the slots and one creation in flight, over a database
\* that rejects no operation.
NextDept ==
  \/ Reply
  \/ \E p \in Procs, u \in Admins, id \in DepartmentIds :
       DeleteDepartmentFind(p, u, id)
  \/ \E p \in Procs : DeleteDepartmentCount(p)
  \/ \E p \in Procs : DeleteDepartmentSave(p)
  \/ \E p \in Procs, u \in Admins, id \in DepartmentIds, isActive \in BOOLEAN :
       UpdateDepartmentFind(p, u, id, isActive)
  \/ \E p \in Procs : UpdateDepartmentSave(p)
  \/ \E p \in Procs, u \in Admins, employeeIds \in TransferLists,
        newDepartmentId \in DepartmentIds :
       TransferFind(p, u, employeeIds, newDepartmentId)
  \/ \E p \in Procs : TransferUpdate(p)
  \/ \E p \in Procs, u \in Admins, id \in {"e2", "e9"},
        department \in DepartmentIds :
       UpdateEmployeeFind(p, u, id, department)
  \/ \E p \in Procs : UpdateEmployeeDepartment(p)
  \/ \E p \in Procs : UpdateEmployeeSave(p)
  \/ \E u \in Admins, body \in DepartmentBodies :
       ids < MaxHires /\ CreateEmployee(u, body)
  \/ CreateFindUser
  \/ CreateFindDepartment
  \/ CreateSaveUser(TRUE)
  \/ CreateSaveEmployee({})
  \/ CreateHook(TRUE)
  \/ CreateCount(TRUE)
  \/ CreatePopulate({})

SpecDept == InitDept /\ [][NextDept]_vars

\* The routes that add, remove and move employees, one step of each at a
\* time in the slots, and the list of the departments.
NextCount ==
  \/ Reply
  \/ \E u \in Admins : GetDepartments(u)
  \/ \E u \in UserIds, uploaded \in BOOLEAN : ChangeAvatar(u, uploaded)
  \/ \E p \in Procs, u \in Admins, employeeIds \in TransferLists,
        newDepartmentId \in DepartmentIds :
       TransferFind(p, u, employeeIds, newDepartmentId)
  \/ \E p \in Procs : TransferUpdate(p)
  \/ \E p \in Procs, u \in Admins, id \in {"e2", "e9"},
        department \in DepartmentIds :
       UpdateEmployeeFind(p, u, id, department)
  \/ \E p \in Procs : UpdateEmployeeDepartment(p)
  \/ \E p \in Procs : UpdateEmployeeSave(p)
  \/ \E u \in Admins, body \in DepartmentBodies :
       ids < MaxHires /\ CreateEmployee(u, body)
  \/ CreateFindUser
  \/ CreateFindDepartment
  \/ CreateSaveUser(TRUE)
  \/ CreateSaveEmployee({})
  \/ CreateHook(TRUE)
  \/ CreateCount(TRUE)
  \/ CreatePopulate({})
  \/ \E u \in Admins, id \in EmployeeIds : DeleteEmployee(u, id)
  \/ DeleteStep(TRUE)

SpecCount == InitDept /\ [][NextCount]_vars

\* Two employees of d1 whose salaries are not multiples of 8 * 22.
PayrollEmployees ==
  {[id |-> "e1", userId |-> "u1", department |-> "d1", salary |-> 1200],
   [id |-> "e2", userId |-> "u2", department |-> "d1", salary |-> 1100]}

\* The system when a salary report is asked for, with these salaries.
InitPayroll ==
  /\ now = 32 * UnitsPerDay
  /\ users = InitUsers
  /\ employees \in SUBSET PayrollEmployees
  /\ departments = InitDepartments
  /\ attendances \in SUBSET SampleAttendances
  /\ overtimeRequests = {SampleRequest}
  /\ leaves = {}
  /\ proc = [p \in Procs |-> IdleProc]
  /\ task = IdleTask
  /\ resp = NoResponse
  /\ report = {}
  /\ ids = 0

\* The salary report alone.
NextPayroll ==
  \/ Reply
  \/ \E u \in UserIds, type \in ReportTypes, n \in PeriodNumbers :
       GetSalary(u, type, n)

SpecPayroll == InitPayroll /\ [][NextPayroll]_vars

\* The reports alone, over the populations of InitPay.
NextPay ==
  \/ Reply
  \/ \E u \in Admins, type \in ReportTypes, n \in PeriodNumbers :
       GetSalary(u, type, n)
  \/ \E u \in Admins, month \in PeriodNumbers \ {0},
        department \in DepartmentFilters : ReportAll(u, month, department)
  \/ \E employee \in InitEmployees, month \in PeriodNumbers \ {0} :
       CalculateSalary(employee, month)

SpecPay == InitPay /\ [][NextPay]_vars

\* Requests as the collection may hold them when an approval arrives: one
\* of e1 still pending, and one of e2 that was rejected.  The status takes
\* the values pending, approved and rejected (part_008:61-63); no route
\* of the source writes rejected, the document below stands for a request
\* that was given that status in the collection itself.
SampleRequests ==
  {[id |-> <<"e1", UnitsPerDay, UnitsPerHour, 1>>, employeeId |-> "e1",
    date |-> UnitsPerDay, requestedHours |-> UnitsPerHour,
    status |-> DefaultOvertimeStatus,
    approvedBy |-> "none", approvedAt |-> NoDate],
   [id |-> <<"e2", UnitsPerDay, UnitsPerHour, 1>>, employeeId |-> "e2",
    date |-> UnitsPerDay, requestedHours |-> UnitsPerHour,
    status |-> "rejected",
    approvedBy |-> "none", approvedAt |-> NoDate]}

InitOvertime ==
  /\ now = 0
  /\ users = InitUsers
  /\ employees = InitEmployees
  /\ departments = InitDepartments
  /\ attendances = {}
  /\ overtimeRequests \in SUBSET SampleRequests
  /\ leaves = {}
  /\ proc = [p \in Procs |-> IdleProc]
  /\ task = IdleTask
  /\ resp = NoResponse
  /\ report = {}
  /\ ids = 0

\* The overtime routes alone, over the collections of InitOvertime.
NextOvertime ==
  \/ Reply
  \/ Tick(MaxDay)
  \/ \E u \in Requesters, d \in RequestDates, h \in RequestedHours :
       RequestOvertime(u, d, h)
  \/ \E u \in UserIds, id \in OvertimeIds : ApproveOvertime(u, id)

SpecOvertime == InitOvertime /\ [][NextOvertime]_vars

\* Accounts with two administrators: u2 registered with the role admin.
TwoAdmins ==
  {[id |-> "u1", email |-> "u1@emp", role |-> "employee"],
   [id |-> "u2", email |-> "u2@emp", role |-> "admin"],
   [id |-> "admin", email |-> "admin@emp", role |-> "admin"]}

\* The collection when a second approval arrives: the request of e1 that
\* the admin approved at 0 is stored, next to any of the sample requests.
InitApproved ==
  /\ now = 0
  /\ users = TwoAdmins
  /\ employees = InitEmployees
  /\ departments = InitDepartments
  /\ attendances = {}
  /\ overtimeRequests \in {S \cup {SampleRequest} : S \in SUBSET SampleRequests}
  /\ leaves = {}
  /\ proc = [p \in Procs |-> IdleProc]
  /\ task = IdleTask
  /\ resp = NoResponse
  /\ report = {}
  /\ ids = 0

\* The approve route alone, at successive moments.
NextApprove ==
  \/ Reply
  \/ Tick(MaxDay)
  \/ \E u \in UserIds, id \in OvertimeIds : ApproveOvertime(u, id)

SpecApproved == InitApproved /\ [][NextApprove]_vars

\* The last day a leave may start or end on.
MaxLeaveDay == 5

\* The startDate and endDate of the bodies of POST /leave.
LeaveDates == {d * UnitsPerDay : d \in 0..MaxLeaveDay}

\* POST /leave alone, for every pair of dates.
NextLeave ==
  \/ Reply
  \/ \E u \in UserIds, startDate \in LeaveDates, endDate \in LeaveDates :
       RequestLeave(u, startDate, endDate)

SpecLeave == Init /\ [][NextLeave]_vars

(***************************************************************************)
(* The attendance ledger: claims                                           *)
(***************************************************************************)
\* C1: in every reachable state the attendance collection holds at most one
\* record per employee and calendar date, whatever the interleaving of the
\* check-in requests.
C1_OneRecordPerEmployeeDay ==
  \A a, b \in attendances :
    (a.employeeId = b.employeeId /\ a.date = b.date) => a = b

\* Two check-ins of one employee raced: the second save was refused and one
\* record of that employee is stored for the day.
C1_RacedCheckIn ==
  /\ resp.op = "checkIn" /\ resp.status = 500
  /\ \E e \in EmployeeOf(resp.user) :
       Cardinality({a \in attendances :
                      a.employeeId = e.id /\ a.date = DayStart(now)}) = 1
  /\ now >= UnitsPerDay

\* C2: a check-in of an employee that does not succeed fails with the 400
\* 'already checked in today' answer and with no other error.
C2_RepeatedCheckInIsAlreadyCheckedIn ==
  (resp.op = "checkIn" /\ resp.status # 201 /\ EmployeeOf(resp.user) # {})
    => resp.status = 400

\* C3: once a record's checkOut is set, no step changes its checkOut,
\* workingHours or overtime, and the record stays.
C3_CheckedOutIsFinal ==
  [][\A a \in attendances :
       a.checkOut # NoDate =>
         \E b \in attendances' :
           /\ b.id = a.id
           /\ b.checkOut = a.checkOut
           /\ b.workingHours = a.workingHours
           /\ b.overtime = a.overtime]_vars

\* C4: the overtime of a checked-out record exceeds neither the hours worked
\* beyond 8 nor the hours of an approved request of that employee and day.
C4_OvertimeWithinWorkedAndApproved ==
  \A a \in attendances :
    (a.checkOut # NoDate /\ a.overtime > 0) =>
      /\ a.overtime <= (a.checkOut - a.checkIn) - standardHours * UnitsPerHour
      /\ \E r \in overtimeRequests :
           /\ r.employeeId = a.employeeId /\ r.date = a.date
           /\ r.status = "approved"
           /\ a.overtime <= r.requestedHours

\* C5: a record of an employee and day for which no request is approved has
\* overtime 0, however long the employee worked and whatever is pending.
C5_NoApprovalNoOvertime ==
  \A a \in attendances :
    (~\E r \in overtimeRequests :
        /\ r.employeeId = a.employeeId /\ r.date = a.date
        /\ r.status = "approved")
      => a.overtime = 0

\* A record checked out after more than 8 hours, with a pending request of
\* that employee and day and none approved: its overtime is 0.
C5_LongDayPendingOnly ==
  \E a \in attendances :
    /\ a.checkOut # NoDate
    /\ a.checkOut - a.checkIn > standardHours * UnitsPerHour
    /\ a.overtime = 0
    /\ \E r \in overtimeRequests :
         r.employeeId = a.employeeId /\ r.date = a.date /\ r.status = "pending"
    /\ ~\E r \in overtimeRequests :
         r.employeeId = a.employeeId /\ r.date = a.date /\ r.status = "approved"

(***************************************************************************)
(* Employee management: claims                                             *)
(***************************************************************************)
\* C6: a deletion that fails leaves nothing half done: when DELETE /:id has
\* answered 500, the employee record it was to remove, if still stored, still
\* has its account, and the count of its department is what it was.
C6_DeletionIsAtomic ==
  (task.op = "delete" /\ task.pc = "end" /\ resp.status = 500) =>
    \A e \in task.originalBody :
      e \in employees =>
        /\ \E a \in users : a.id = e.userId
        /\ EmployeeCount(e.department) = task.count

\* C7: when the removal of the account is the step of DELETE /:id that
\* fails, the answer is the 500 error, the employee record is stored as it
\* was and the employee count of its department is what it was.
C7_AccountRemovalFailed ==
  (task.op = "delete" /\ task.pc = "end" /\ task.failed = "user") =>
    /\ resp = Response("deleteEmployee", task.user, 500)
    /\ task.originalBody \subseteq employees
    /\ \A e \in task.originalBody :
         EmployeeCount(e.department) = task.count

\* The removal of the account of the sole member of a department failed:
\* the record is stored, the account too, and the count is still 1.
C7_SoleMemberKept ==
  /\ task.op = "delete" /\ task.pc = "end" /\ task.failed = "user"
  /\ resp.status = 500
  /\ task.count = 1
  /\ \E e \in task.originalBody :
       /\ e \in employees
       /\ EmployeeCount(e.department) = 1
       /\ \E a \in users : a.id = e.userId

\* C8: a creation that fails after its account was stored removes the
\* account: when POST / has answered 500, the account it created is either
\* gone or has its employee record.
C8_FailedCreationLeavesNoAccount ==
  (task.op = "create" /\ task.pc = "end" /\ resp.status = 500) =>
    \A a \in users :
      a.id = task.account => \E e \in employees : e.userId = a.id

(***************************************************************************)
(* Report summaries: claims                                                *)
(***************************************************************************)
\* C9: every average of a report summary over an empty population is the
\* number 0, and neither NaN nor Infinity.
C9_EmptyPopulationAveragesZero ==
  \A r \in report :
    (r.route \in {"salary", "reportAll"} /\ r.totalEmployees = 0) =>
      \A i \in DOMAIN r.averages :
        r.averages[i].kind = "finite" /\ r.averages[i].num = 0

\* C10: a check-out of an employee without a record for the current day is
\* answered 404, starts nothing and leaves the attendance collection as it is.
C10_CheckOutWithoutCheckIn ==
  [][\A p \in Procs, u \in UserIds :
       (/\ CheckOutFind(p, u)
        /\ \E e \in EmployeeOf(u) :
             ~\E a \in attendances :
                a.employeeId = e.id /\ a.date = DayStart(now))
         => /\ resp' = Response("checkOut", u, 404)
            /\ attendances' = attendances
            /\ proc' = proc]_vars

\* An employee was answered 404 at check-out while another employee's
\* record of the day is stored.
C10_Refused ==
  /\ resp.op = "checkOut" /\ resp.status = 404
  /\ \E e \in EmployeeOf(resp.user) :
       ~\E a \in attendances : a.employeeId = e.id /\ a.date = DayStart(now)
  /\ \E a \in attendances : a.date = DayStart(now)

\* C11: a check-out of an employee whose record of the current day has its
\* checkOut set is answered 400, starts nothing and leaves the attendance
\* collection, so checkOut, workingHours and overtime of that record, as it is.
C11_CheckOutAfterCheckOut ==
  [][\A p \in Procs, u \in UserIds :
       (/\ CheckOutFind(p, u)
        /\ \E e \in EmployeeOf(u) :
             \E a \in attendances :
               /\ a.employeeId = e.id /\ a.date = DayStart(now)
               /\ a.checkOut # NoDate)
         => /\ resp' = Response("checkOut", u, 400)
            /\ attendances' = attendances
            /\ proc' = proc]_vars

\* An employee was answered 400 at check-out, the record of the day being
\* checked out after more than 8 hours.
C11_RefusedTwice ==
  /\ resp.op = "checkOut" /\ resp.status = 400
  /\ \E e \in EmployeeOf(resp.user) :
       \E a \in attendances :
         /\ a.employeeId = e.id /\ a.date = DayStart(now)
         /\ a.checkOut # NoDate
         /\ a.workingHours > standardHours * 100

\* C12: every record a check-in created has standardCheckIn at 08:00 of the
\* calendar day of its checkIn, and lateMinutes the whole minutes from
\* standardCheckIn to checkIn, 0 when checkIn is not later: never negative.
C12_LateMinutesFromEight ==
  \A a \in attendances :
    LET day == (a.checkIn \div UnitsPerDay) * UnitsPerDay
        late == a.checkIn - a.standardCheckIn
    IN /\ a.date = day
       /\ a.standardCheckIn = day + 8 * UnitsPerHour
       /\ a.lateMinutes = IF late > 0 THEN late \div UnitsPerMinute ELSE 0
       /\ a.lateMinutes >= 0

\* A check-in at 08:15:12 recorded with lateMinutes 15 and one at midnight
\* recorded with lateMinutes 0.
C12_LateAndEarly ==
  /\ \E a \in attendances :
       a.checkIn = a.date + 8 * UnitsPerHour + 76 /\ a.lateMinutes = 15
  /\ \E b \in attendances : b.checkIn = b.date /\ b.lateMinutes = 0

C14_SumsOverPresentInRange ==
  \A r \in report :
    LET startDate == PeriodStart(r.period.type, r.period.n)
        endDate == PeriodEnd(r.period.type, r.period.n)
        counted(id) == {a \in attendances :
                          /\ a.employeeId = id /\ a.status = "present"
                          /\ startDate <= a.date /\ a.date <= endDate}
        exact(row) ==
          /\ row.workingHours =
               Sum([a \in counted(row.id) |-> a.workingHours], counted(row.id))
          /\ row.overtimeHours =
               Sum([a \in counted(row.id) |-> a.overtime], counted(row.id))
    IN /\ r.route = "salary" =>
            \A d \in r.departments : \A row \in d.employees : exact(row)
       /\ r.route = "calculateSalary" => exact(r.employee)

\* The January payroll over all the sample records: e2 is counted for
\* January 1 and January 31 (18.00 + 9.75 hours) and not for the leave of
\* January 15, e1 for January 1 (9.75 hours, 1 hour of overtime) and not
\* for February 1.
C14_JanuaryOfBoth ==
  /\ attendances = SampleAttendances
  /\ \E r \in report :
       /\ r.route = "salary" /\ r.period = [type |-> "month", n |-> 10]
       /\ \E d \in r.departments :
            /\ \E row \in d.employees :
                 row.id = "e2" /\ row.workingHours = 2775 /\ row.overtimeHours = 0
            /\ \E row \in d.employees :
                 /\ row.id = "e1" /\ row.workingHours = 975
                 /\ row.overtimeHours = UnitsPerHour

C16_NoAttendanceIsZeroPay ==
  \A r \in report :
    LET startDate == PeriodStart(r.period.type, r.period.n)
        endDate == PeriodEnd(r.period.type, r.period.n)
        idle(id) == ~ \E a \in attendances :
                        /\ a.employeeId = id
                        /\ startDate <= a.date /\ a.date <= endDate
    IN /\ r.route = "salary" =>
            \A e \in employees :
              idle(e.id) =>
                \E d \in r.departments : \E row \in d.employees :
                  /\ row.id = e.id
                  /\ row.regularPay = 0 /\ row.overtimePay = 0
       /\ r.route = "calculateSalary" =>
            (idle(r.employee.id) =>
               r.employee.regularPay = 0 /\ r.employee.overtimePay = 0)

\* The February payroll over all the sample records: e2 has no record in
\* February and is listed with no hours and no pay, next to e1, who worked
\* on February 1.
C16_FebruaryWithoutRecords ==
  /\ attendances = SampleAttendances
  /\ \E r \in report :
       /\ r.route = "salary" /\ r.period = [type |-> "month", n |-> 20]
       /\ \E d \in r.departments :
            /\ \E row \in d.employees :
                 /\ row.id = "e2" /\ row.workingHours = 0
                 /\ row.regularPay = 0 /\ row.overtimePay = 0
            /\ \E row \in d.employees : row.id = "e1" /\ row.regularPay > 0

\* C17: a payroll computation for a period whose startDate is later than
\* its endDate fails and produces no report: no report of GET /salary is
\* for such a period.
C17_NoReportForInvertedPeriod ==
  \A r \in report :
    r.route = "salary" =>
      PeriodStart(r.period.type, r.period.n) <= PeriodEnd(r.period.type, r.period.n)

(***************************************************************************)
(* Overtime requests: claims                                               *)
(***************************************************************************)
\* C18: an overtime request whose date is earlier than the current moment
\* is answered 400 and stores nothing, and every request that enters the
\* collection has a date not earlier than the moment it is created.
C18_NoRequestForThePast ==
  [][/\ \A u \in Requesters, d \in RequestDates, h \in RequestedHours :
          (RequestOvertime(u, d, h) /\ d < now)
            => /\ resp' = Response("request", u, 400)
               /\ overtimeRequests' = overtimeRequests
     /\ \A r \in overtimeRequests' :
          (~\E q \in overtimeRequests : q.id = r.id) => r.date >= now]_vars

\* After 00:00 of day 0 a request for 00:00 of day 0 was answered 400 and
\* the collection is empty.
C18_RefusedForToday ==
  /\ resp.op = "request" /\ resp.status = 400
  /\ now > 0
  /\ overtimeRequests = {}

\* C19: an overtime request whose requestedHours is zero or negative is
\* answered with an error and stores nothing, and every request in the
\* collection has requestedHours above zero.
C19_HoursArePositive ==
  [][/\ \A u \in Requesters, d \in RequestDates, h \in RequestedHours :
          (RequestOvertime(u, d, h) /\ h <= 0)
            => /\ resp'.op = "request" /\ resp'.status \in {400, 500}
               /\ overtimeRequests' = overtimeRequests
     /\ \A r \in overtimeRequests' : r.requestedHours > 0]_vars

\* The employee u1 asked for no hours, or fewer, on a day that is not past:
\* the answer was 500 and nothing is stored.
C19_RefusedWithoutHours ==
  /\ resp = Response("request", "u1", 500)
  /\ overtimeRequests = {}

C21_OnlyAdminApproves ==
  [][/\ \A u \in UserIds, id \in OvertimeIds :
          (/\ ApproveOvertime(u, id)
           /\ ~\E a \in users : a.id = u /\ a.role = "admin")
            => /\ resp' = Response("approve", u, 403)
               /\ overtimeRequests' = overtimeRequests
     /\ \A r \in overtimeRequests' :
          r.status = "approved" =>
            \E a \in users' : a.id = r.approvedBy /\ a.role = "admin"]_vars

\* The employee u1 was answered 403 on a pending request, next to a request
\* the administrator approved.
C21_EmployeeRefused ==
  /\ resp = Response("approve", "u1", 403)
  /\ \E r \in overtimeRequests : r.status = "pending" /\ r.approvedBy = "none"
  /\ \E r \in overtimeRequests : r.status = "approved" /\ r.approvedBy = "admin"

(***************************************************************************)
(* Frames                                                                  *)
(***************************************************************************)
\* C22: a check-in or check-out of a principal at time t works on the
\* record of that principal's employee for the day of t and on no other:
\* the steps before the save write nothing and hold a document with that
\* key, and the save inserts or changes only the record with that key.
C22_OnlyOwnRecordOfTheDay ==
  [][/\ \A p \in Procs, u \in UserIds :
          (CheckInFind(p, u) \/ CheckOutFind(p, u))
            => /\ attendances' = attendances
               /\ \A d \in proc'[p].doc :
                    /\ d.date = DayStart(now)
                    /\ \E e \in EmployeeOf(u) : d.employeeId = e.id
     /\ \A p \in Procs :
          CheckOutOvertime(p)
            => /\ attendances' = attendances
               /\ {<<d.employeeId, d.date>> : d \in proc'[p].doc}
                    = {<<d.employeeId, d.date>> : d \in proc[p].doc}
     /\ \A p \in Procs :
          (CheckInSave(p) \/ CheckOutSave(p))
            => \A d \in proc[p].doc :
                 /\ \A a \in attendances :
                      (a.employeeId # d.employeeId \/ a.date # d.date)
                        => a \in attendances'
                 /\ \A b \in attendances' :
                      b \notin attendances
                        => b.employeeId = d.employeeId /\ b.date = d.date]_vars

\* u1 checked out on the current day: the record of e1 for that day is
\* closed, the record of e1 for the day before is still open and the record
\* of e2 for the current day is still open.
C22_CurrentDayClosedOnly ==
  /\ resp = Response("checkOut", "u1", 200)
  /\ \E a \in attendances :
       a.employeeId = "e1" /\ a.date = DayStart(now) /\ a.checkOut # NoDate
  /\ \E a \in attendances :
       a.employeeId = "e1" /\ a.date < DayStart(now) /\ a.checkOut = NoDate
  /\ \E a \in attendances :
       a.employeeId = "e2" /\ a.date = DayStart(now) /\ a.checkOut = NoDate

(***************************************************************************)
(* Departments: claims                                                     *)
(***************************************************************************)
\* C23: a department delete that finds an employee referring to the
\* department is answered 400 and leaves every department, its isActive
\* flag included, as it is.
C23_ReferencedDepartmentKept ==
  [][\A p \in Procs :
       (/\ DeleteDepartmentCount(p)
        /\ \E e \in employees : e.department = Loaded(p).id)
         => /\ resp' = Response("deleteDepartment", proc[p].user, 400)
            /\ departments' = departments
            /\ proc'[p] = IdleProc]_vars

\* A delete was answered 400 while d1 has employees, and every department
\* is active.
C23_DeleteRefused ==
  /\ resp.op = "deleteDepartment" /\ resp.status = 400
  /\ \E e \in employees : e.department = "d1"
  /\ \A d \in departments : d.isActive

\* C24: every employee refers to a department that exists, and a creation,
\* an update or a transfer that names a department that does not exist is
\* answered with an error, ends there and changes no employee.
C24_DepartmentReferencesExist ==
  [][/\ \A e \in employees' : \E d \in departments' : d.id = e.department
     /\ (/\ CreateFindDepartment
         /\ \A b \in task.body : ~\E d \in departments : d.id = b.department)
          => /\ resp' = Response("createEmployee", task.user, 400)
             /\ task'.pc = "end"
             /\ employees' = employees
     /\ \A p \in Procs :
          (/\ UpdateEmployeeDepartment(p)
           /\ ~\E d \in departments : d.id = Loaded(p).department)
            => /\ resp' = Response("updateEmployee", proc[p].user, 400)
               /\ proc'[p] = IdleProc
               /\ employees' = employees
     /\ \A p \in Procs, u \in Admins, employeeIds \in TransferLists,
           newDepartmentId \in DepartmentIds :
          (/\ TransferFind(p, u, employeeIds, newDepartmentId)
           /\ ~\E d \in departments : d.id = newDepartmentId)
            => /\ resp'.op = "transfer" /\ resp'.status \in {403, 404}
               /\ proc' = proc
               /\ employees' = employees]_vars

\* An update that named a department that does not exist was answered 400,
\* after an employee had been moved to d2.
C24_UnknownDepartmentRefused ==
  /\ resp = Response("updateEmployee", "admin", 400)
  /\ \E e \in employees : e.department = "d2"
  /\ \A e \in employees : \E d \in departments : d.id = e.department

\* C25: the employeeCount that the list of departments gives for a
\* department is the number of employee records that refer to it at that
\* moment, whatever creations, updates, avatar changes, transfers and
\* deletions came before; every active department is listed.
C25_CountIsNumberOfReferences ==
  [][\A u \in Admins :
       (GetDepartments(u) /\ resp'.status = 200)
         => \A r \in report' :
              /\ \A row \in r.departments :
                   row.employeeCount =
                     Cardinality({e \in employees : e.department = row.id})
              /\ \A d \in departments :
                   d.isActive => \E row \in r.departments : row.id = d.id]_vars

\* The list after e1 was moved to d2, one employee was created and e2 was
\* deleted: the two counts follow.
C25_CountsAfterMoves ==
  /\ resp.op = "departments" /\ resp.status = 200
  /\ ~\E e \in employees : e.id = "e2"
  /\ \E e \in employees : e.id = "e1" /\ e.department = "d2"
  /\ \E e \in employees : e.id = "e3"
  /\ \E r \in report :
       /\ r.route = "departments"
       /\ \A row \in r.departments :
            row.employeeCount =
              Cardinality({e \in employees : e.department = row.id})
       /\ \E row \in r.departments : row.id = "d2" /\ row.employeeCount >= 1

(***************************************************************************)
(* Pay totals: claims                                                      *)
(***************************************************************************)
\* C26: the totals of a department in the salary report are accumulated
\* from the unrounded pay of its employees and rounded once: each total is
\* the rounding to 2 places of the exact sum of salary / (8 * 22) times
\* the hours (times 1.5 for overtime) over the employees of the department.
C26_TotalsFromUnroundedPay ==
  \A r \in report :
    r.route = "salary" =>
      \A d \in r.departments :
        LET perMonth == standardHours * 22
        IN /\ d.totalRegularPay =
                Round(Sum([x \in d.employees |-> x.baseSalary * x.workingHours],
                          d.employees),
                      perMonth)
           /\ d.totalOvertimePay =
                Round(Sum([x \in d.employees |->
                             x.baseSalary * x.overtimeHours * 150],
                          d.employees),
                      perMonth * UnitsPerHour)
           /\ d.totalSalary =
                Round(Sum([x \in d.employees |->
                             x.baseSalary * x.workingHours * UnitsPerHour
                               + x.baseSalary * x.overtimeHours * 150],
                          d.employees),
                      perMonth * UnitsPerHour)

(***************************************************************************)
(* Approvals: claims                                                       *)
(***************************************************************************)
\* C27: an administrator's approve of a request that is already approved
\* is answered 200, the request stays approved and its approvedBy and
\* approvedAt become the approver of this call and the moment of this
\* call; no other request changes.
C27_ApproveAgainRestamps ==
  [][\A u \in UserIds, id \in OvertimeIds :
       (/\ ApproveOvertime(u, id)
        /\ isAdmin(u)
        /\ \E r \in overtimeRequests : r.id = id /\ r.status = "approved")
         => /\ resp'.status = 200
            /\ \E r \in overtimeRequests' :
                 /\ r.id = id /\ r.status = "approved"
                 /\ r.approvedBy = u /\ r.approvedAt = now
            /\ {r \in overtimeRequests' : r.id # id}
                 = {r \in overtimeRequests : r.id # id}
            /\ Cardinality(overtimeRequests') = Cardinality(overtimeRequests)]_vars

\* The request the admin approved at 0, approved again later by u2.
C27_ApprovedAgainByU2 ==
  /\ resp.op = "approve" /\ resp.status = 200 /\ resp.user = "u2"
  /\ \E r \in overtimeRequests :
       /\ r.id = SampleRequest.id /\ r.status = "approved"
       /\ r.approvedBy = "u2" /\ r.approvedAt = now /\ now > 0

(***************************************************************************)
(* Leave: claims                                                           *)
(***************************************************************************)
\* C28: every stored leave request ends on or after the day it starts.
C28_LeaveEndsAfterStart ==
  \A l \in leaves : l.endDate >= l.startDate

(***************************************************************************)
(* Overtime and the attendance records: claims                             *)
(***************************************************************************)
\* C29: a request for overtime and an approval leave every attendance
\* record as it is, whatever they answer; in particular an approval that
\* comes after a check-out leaves the overtime of the checked-out record
\* at the value computed at check-out.
C29_OvertimeRoutesKeepAttendance ==
  [][/\ \A u \in UserIds :
          (\/ \E d \in RequestDates, h \in RequestedHours :
                RequestOvertime(u, d, h)
           \/ \E id \in OvertimeIds : ApproveOvertime(u, id))
            => attendances' = attendances
     /\ \A u \in UserIds, id \in OvertimeIds :
          (ApproveOvertime(u, id) /\ resp'.status = 200)
            => \A a \in attendances :
                 CheckedOut(a) =>
                   \E b \in attendances' :
                     b.id = a.id /\ b.overtime = a.overtime]_vars

\* e1 worked more than 8 hours and was checked out with no overtime; the
\* request for that day has been approved since.
C29_ApprovedAfterCheckOut ==
  /\ resp.op = "approve" /\ resp.status = 200
  /\ \E a \in attendances, r \in overtimeRequests :
       /\ a.employeeId = r.employeeId /\ a.date = r.date
       /\ CheckedOut(a)
       /\ a.checkOut - a.checkIn > standardHours * UnitsPerHour
       /\ a.overtime = 0
       /\ r.status = "approved" /\ r.approvedAt >= a.checkOut

(***************************************************************************)
(* Deactivated departments: claims                                         *)
(***************************************************************************)
\* C30: in every reachable state no employee refers to a department that
\* has been deactivated.
C30_NoEmployeeInDeactivatedDepartment ==
  \A e \in employees :
    \A d \in departments : d.id = e.department => d.isActive

====
